---- MODULE Spec2Model ----
(***************************************************************************)
(* Run-lifecycle poller of the Apify actor runner: the client-side loop    *)
(* ApifyClient.waitForRun / getRunDataset and the server-side loop of      *)
(* GET /runs/:runId/wait.  Strings are sequences of one-character strings, *)
(* so concatenation, comparison and toLowerCase are computed, not assumed. *)
(***************************************************************************)
EXTENDS Integers, Sequences, FiniteSets, TLC

\* ------------------------------------------------------------------------
\* String literals of the source
\* ------------------------------------------------------------------------

\* "SUCCEEDED"  (part_000:115)
SUCCEEDED ==
    <<"S","U","C","C","E","E","D","E","D">>

\* "FAILED"  (part_000:124)
FAILED ==
    <<"F","A","I","L","E","D">>

\* "ABORTED"  (part_000:124)
ABORTED ==
    <<"A","B","O","R","T","E","D">>

\* "TIMED-OUT"  (part_000:124)
TIMED_OUT ==
    <<"T","I","M","E","D","-","O","U","T">>

\* "Actor run "  (part_000:125)
ActorRunPrefix ==
    <<"A","c","t","o","r"," ","r","u","n"," ">>

\* ": "  (part_000:125)
ColonSpace ==
    <<":"," ">>

\* "No error message available"  (part_000:125)
NoErrorMessage ==
    <<"N","o"," ","e","r","r","o","r"," ","m","e","s","s","a","g","e"," ",
      "a","v","a","i","l","a","b","l","e">>

\* "Actor run timed out - taking longer than expected"  (part_000:132)
ClientTimeoutMessage ==
    <<"A","c","t","o","r"," ","r","u","n"," ","t","i","m","e","d"," ","o",
      "u","t"," ","-"," ","t","a","k","i","n","g"," ","l","o","n","g","e",
      "r"," ","t","h","a","n"," ","e","x","p","e","c","t","e","d">>

\* "Run timed out - taking longer than expected"  (SuccessMessage.tsx:829)
ServerTimeoutMessage ==
    <<"R","u","n"," ","t","i","m","e","d"," ","o","u","t"," ","-"," ","t",
      "a","k","i","n","g"," ","l","o","n","g","e","r"," ","t","h","a","n",
      " ","e","x","p","e","c","t","e","d">>

\* "Failed to fetch run details: "  (part_000:87)
FetchRunContext ==
    <<"F","a","i","l","e","d"," ","t","o"," ","f","e","t","c","h"," ","r",
      "u","n"," ","d","e","t","a","i","l","s",":"," ">>


\* ------------------------------------------------------------------------
\* Values the remote platform can put into a run record or a response
\* ------------------------------------------------------------------------

\* "READY"  (platform status, non-terminal)
READY ==
    <<"R","E","A","D","Y">>

\* "RUNNING"  (platform status, non-terminal)
RUNNING ==
    <<"R","U","N","N","I","N","G">>

\* "succeeded"  (an unrecognised status string)
succeeded_lc ==
    <<"s","u","c","c","e","e","d","e","d">>

\* "bad input"  (a statusMessage)
BadInput ==
    <<"b","a","d"," ","i","n","p","u","t">>

\* "timed out - taking longer than expected"  (a statusMessage resembling the timeout text)
TimeoutTail ==
    <<"t","i","m","e","d"," ","o","u","t"," ","-"," ","t","a","k","i","n",
      "g"," ","l","o","n","g","e","r"," ","t","h","a","n"," ","e","x","p",
      "e","c","t","e","d">>

\* "HTTP 404: Not Found"  (a transport failure message)
Http404 ==
    <<"H","T","T","P"," ","4","0","4",":"," ","N","o","t"," ","F","o","u",
      "n","d">>

\* "fetch failed"  (a network-level failure message)
FetchFailed ==
    <<"f","e","t","c","h"," ","f","a","i","l","e","d">>

\* "ds_1"  (a dataset id)
ds_1 ==
    <<"d","s","_","1">>

\* "ds_2"  (a dataset id)
ds_2 ==
    <<"d","s","_","2">>

\* "run_1"  (a run id)
run_1 ==
    <<"r","u","n","_","1">>

\* "run_2"  (a run id)
run_2 ==
    <<"r","u","n","_","2">>

\* ------------------------------------------------------------------------
\* Program constants and model bounds
\* ------------------------------------------------------------------------
\* const pollInterval = 2000 (both loops)
pollInterval ==
    2000

\* maxWaitTime = 300000 (default parameter of waitForRun, constant of /wait)
DefaultMaxWaitTime ==
    300000

\* a request takes k seconds, k in 0..MaxLatencySteps
MaxLatencySteps ==
    1

\* a timer fires k seconds late, k in 0..MaxOvershootSteps
MaxOvershootSteps ==
    1

\* request counters saturate at MaxCount
MaxCount ==
    2

Latencies ==
    {k * 1000 : k \in 0..MaxLatencySteps}

SleepTimes ==
    {pollInterval + k * 1000 : k \in 0..MaxOvershootSteps}

\* budgets a caller passes to waitForRun: the default, and a budget shorter
\* than one poll interval
ClientMaxWaitTimes ==
    {1000, DefaultMaxWaitTime}

Impls ==
    {"client", "server"}

RunIds ==
    {run_1, run_2}

\* ------------------------------------------------------------------------
\* JavaScript values
\* ------------------------------------------------------------------------
\* an optional string field: absent (undefined) or a string
Absent ==
    [present |-> FALSE, value |-> <<>>]

Some(v) ==
    [present |-> TRUE, value |-> v]

\* truthiness of an optional string as used by `x || y` and `if (!x)`:
\* undefined and the empty string are falsy
Truthy(o) ==
    o.present /\ o.value # <<>>

UpperLetters ==
    <<"A","B","C","D","E","F","G","H","I","J","K","L","M",
      "N","O","P","Q","R","S","T","U","V","W","X","Y","Z">>

LowerLetters ==
    <<"a","b","c","d","e","f","g","h","i","j","k","l","m",
      "n","o","p","q","r","s","t","u","v","w","x","y","z">>

ToLowerChar(c) ==
    IF \E i \in 1..26 : UpperLetters[i] = c
    THEN LowerLetters[CHOOSE i \in 1..26 : UpperLetters[i] = c]
    ELSE c

\* the status used as it is, without toLowerCase
ToLowerCase_Unchanged(s) ==
    s

\* String.prototype.toLowerCase
ToLowerCase(s) ==
    [i \in 1..Len(s) |-> ToLowerChar(s[i])]

\* ------------------------------------------------------------------------
\* The remote platform
\* ------------------------------------------------------------------------
PendingStatuses ==
    {READY, RUNNING, succeeded_lc}

FailureStatuses ==
    {FAILED, ABORTED, TIMED_OUT}

Statuses ==
    PendingStatuses \cup {SUCCEEDED} \cup FailureStatuses

StatusMessages ==
    {Absent, Some(<<>>), Some(BadInput)}

DatasetIds ==
    {ds_1, ds_2}

\* item sequences the dataset endpoint can return
Datasets ==
    {<<>>, <<"x">>, <<"x", "y">>, <<"y", "x">>}

\* messages a failed transport call can carry
TransportCauses ==
    {Http404, FetchFailed}

\* a run record as the platform serves it; finishedAt is there once the
\* status is terminal, statusMessage only on a failure status
RunRecord(id, st, msg, ds) ==
    [id |-> id, status |-> st, statusMessage |-> msg,
     defaultDatasetId |-> ds,
     finishedAt |-> IF st \in PendingStatuses THEN Absent ELSE Some(<<"t">>),
     stats |-> <<"stats">>]

RunRecords(id) ==
    {RunRecord(id, st, Absent, ds) :
        st \in PendingStatuses \cup {SUCCEEDED},
        ds \in {Absent} \cup {Some(d) : d \in DatasetIds}}
    \cup
    {RunRecord(id, st, msg, ds) :
        st \in FailureStatuses, msg \in StatusMessages,
        ds \in {Absent} \cup {Some(d) : d \in DatasetIds}}

\* the value of `run` before any record was observed
NoRun ==
    [id |-> <<>>, status |-> <<>>, statusMessage |-> Absent,
     defaultDatasetId |-> Absent, finishedAt |-> Absent, stats |-> <<>>]

NoResult ==
    [kind |-> "none"]

NoResponse ==
    [kind |-> "none"]

\* ------------------------------------------------------------------------
\* The poll loop: pure parts
\* ------------------------------------------------------------------------
\* the status compared without regard to case
IsSucceeded_IgnoreCase(status) ==
    ToLowerCase(status) = ToLowerCase(SUCCEEDED)

\* run.status === 'SUCCEEDED'
IsSucceeded(status) ==
    status = SUCCEEDED

\* failing fast on every status that is not known to be live
IsFailedTerminal_FailFast(status) ==
    status \notin {SUCCEEDED, READY, RUNNING}

\* run.status === 'FAILED' || ... 'ABORTED' || ... 'TIMED-OUT'
IsFailedTerminal(status) ==
    status = FAILED \/ status = ABORTED \/ status = TIMED_OUT

\* the budget counted from the end of the first sleep
ClientLoopCondition_AfterSleep(elapsed, maxWait) ==
    elapsed - pollInterval < maxWait

\* while (Date.now() - startTime < maxWaitTime)
ClientLoopCondition(elapsed, maxWait) ==
    elapsed < maxWait

\* if (Date.now() - startTime > maxWaitTime) throw ...
ServerTimedOut(elapsed, maxWait) ==
    elapsed > maxWait

MayPoll(i, elapsed, maxWait) ==
    IF i = "client" THEN ClientLoopCondition(elapsed, maxWait)
    ELSE ~ServerTimedOut(elapsed, maxWait)

\* the statusMessage interpolated without the fallback
StatusMessageOrDefault_NoFallback(r) ==
    r.statusMessage.value

\* run.statusMessage || 'No error message available'
StatusMessageOrDefault(r) ==
    IF Truthy(r.statusMessage) THEN r.statusMessage.value ELSE NoErrorMessage

\* `Actor run ${run.status.toLowerCase()}: ${run.statusMessage || ...}`
RunFailedMessage(r) ==
    ActorRunPrefix \o ToLowerCase(r.status) \o ColonSpace
        \o StatusMessageOrDefault(r)

\* the timeout reported in the format of a run failure
TimeoutMessage_AsRunFailure(i) ==
    ActorRunPrefix \o ToLowerCase(TIMED_OUT) \o ColonSpace \o NoErrorMessage

\* throw new Error('Actor run timed out - ...') / ('Run timed out - ...')
TimeoutMessage(i) ==
    IF i = "client" THEN ClientTimeoutMessage ELSE ServerTimeoutMessage

\* getRun's catch prepends its context; the server rethrows the cause
RunFetchErrorMessage(i, cause) ==
    IF i = "client" THEN FetchRunContext \o cause ELSE cause

Failure(msg) ==
    [kind |-> "error", message |-> msg]

\* { status: run.status, finishedAt: run.finishedAt, stats: run.stats,
\*   dataset, run }
Outcome(r, items) ==
    [kind |-> "outcome", status |-> r.status, finishedAt |-> r.finishedAt,
     stats |-> r.stats, dataset |-> items, run |-> r]

\* the dataset is left empty whatever the response
DatasetStepResult_DropsItems(r, resp) ==
    Outcome(r, <<>>)

\* a failed dataset step is rethrown
DatasetStepResult_Rethrows(r, resp) ==
    IF resp.kind = "ok" THEN Outcome(r, resp.items) ELSE Failure(resp.message)

\* what the loop returns once the dataset step has ended with response
\* resp: the items on success; on an error the catch block leaves []
DatasetStepResult(r, resp) ==
    IF resp.kind = "ok" THEN Outcome(r, resp.items) ELSE Outcome(r, <<>>)

Bump(n) ==
    IF n < MaxCount THEN n + 1 ELSE MaxCount

\* ------------------------------------------------------------------------
\* State
\* ------------------------------------------------------------------------
VARIABLES
    impl,         \* which loop runs: "client" or "server"
    runId,        \* the run polled
    maxWaitTime,  \* the budget in ms
    startTime,    \* Date.now() at loop entry
    now,          \* the clock; it advances when an await completes, so while a
                  \* request is outstanding it is that request's start time
    pc,           \* position of the loop
    remote,       \* the run record the platform holds
    run,          \* `run` of the loop: the record last returned by its fetch
    dsRun,        \* `run` of getRunDataset (client only)
    dsReq,        \* id of the dataset-items request issued, if any
    dsResp,       \* response to the dataset-items request
    result,       \* what the loop returned or threw
    path,         \* the return/throw site that ended the loop
    fetches,      \* run-status requests issued (saturating)
    lastStatus,   \* history: status of the record observed last, <<>> if none
    allPending    \* history: no observed record had a terminal status

\* state of the other parts of the program, each with a specification of
\* its own further down; the poll-loop specification leaves them switched off
VARIABLES
    http,         \* one call of a transport (makeRequest / makeApifyRequest)
    catalog,      \* one call of the actor listing or of the schema accessor
    mw,           \* one request passing the proxy's validateApiKey and route
    app,          \* the state of the App component and its pending calls
    exec,         \* the two loops replayed over one recorded trace
    loops         \* two poll loops running concurrently

Off ==
    [stage |-> "off"]

ext ==
    <<http, catalog, mw, app, exec, loops>>

vars ==
    <<impl, runId, maxWaitTime, startTime, now, pc, remote, run, dsRun,
      dsReq, dsResp, result, path, fetches, lastStatus, allPending, ext>>

params ==
    <<impl, runId, maxWaitTime, startTime, ext>>

Elapsed ==
    now - startTime

\* history bookkeeping for a record handed to the program by a run fetch
Observe(rec) ==
    /\ lastStatus' = rec.status
    /\ allPending' = (allPending /\ rec.status \in PendingStatuses)

Init ==
    /\ impl \in Impls
    /\ runId \in RunIds
    /\ maxWaitTime \in (IF impl = "client" THEN ClientMaxWaitTimes
                        ELSE {DefaultMaxWaitTime})
    /\ startTime = 1000
    /\ now = startTime
    /\ pc = "loop"
    /\ remote \in RunRecords(runId)
    /\ run = NoRun
    /\ dsRun = NoRun
    /\ dsReq = Absent
    /\ dsResp = NoResponse
    /\ result = NoResult
    /\ path = "none"
    /\ fetches = 0
    /\ lastStatus = <<>>
    /\ allPending = TRUE
    /\ http = Off
    /\ catalog = Off
    /\ mw = Off
    /\ app = Off
    /\ exec = Off
    /\ loops = Off

\* ------------------------------------------------------------------------
\* The remote platform's steps
\* ------------------------------------------------------------------------
\* the run moves on while it is not terminal; a terminal status is final
RemoteAdvance ==
    /\ pc # "done"
    /\ remote.status \in PendingStatuses
    /\ \E st \in Statuses \ {remote.status} :
       \E msg \in StatusMessages :
          /\ (st \notin FailureStatuses => msg = Absent)
          /\ remote' = RunRecord(remote.id, st, msg, remote.defaultDatasetId)
    /\ UNCHANGED <<params, now, pc, run, dsRun, dsReq, dsResp, result, path,
                   fetches, lastStatus, allPending>>

\* the platform allocates the output dataset; the id never changes afterwards
RemoteAllocateDataset ==
    /\ pc # "done"
    /\ ~remote.defaultDatasetId.present
    /\ \E d \in DatasetIds :
          remote' = [remote EXCEPT !.defaultDatasetId = Some(d)]
    /\ UNCHANGED <<params, now, pc, run, dsRun, dsReq, dsResp, result, path,
                   fetches, lastStatus, allPending>>

\* ------------------------------------------------------------------------
\* The poll loop: steps between awaits
\* ------------------------------------------------------------------------
\* loop head, budget exhausted: throw the timeout error
Timeout ==
    /\ pc = "loop"
    /\ ~MayPoll(impl, Elapsed, maxWaitTime)
    /\ pc' = "done"
    /\ result' = Failure(TimeoutMessage(impl))
    /\ path' = "timeout"
    /\ UNCHANGED <<params, now, remote, run, dsRun, dsReq, dsResp, fetches,
                   lastStatus, allPending>>

\* loop head, budget left: issue the run-status request
FetchRun ==
    /\ pc = "loop"
    /\ MayPoll(impl, Elapsed, maxWaitTime)
    /\ pc' = "awaitRun"
    /\ fetches' = Bump(fetches)
    /\ UNCHANGED <<params, now, remote, run, dsRun, dsReq, dsResp, result,
                   path, lastStatus, allPending>>

\* the run-status request fails: getRun / makeApifyRequest throws and the
\* loop does not catch it
RunFetchFails ==
    /\ pc = "awaitRun"
    /\ \E lat \in Latencies : now' = now + lat
    /\ \E cause \in TransportCauses :
          result' = Failure(RunFetchErrorMessage(impl, cause))
    /\ pc' = "done"
    /\ path' = "transport"
    /\ UNCHANGED <<params, remote, run, dsRun, dsReq, dsResp, fetches,
                   lastStatus, allPending>>

\* the run-status request returns a record; the code up to the next await
\* or to the return/throw runs with it
\*   SUCCEEDED, client: getRunDataset(runId) starts by fetching the run again
\*   SUCCEEDED, server: requests the items of run.defaultDatasetId, or
\*                      returns at once when there is none
\*   FAILED / ABORTED / TIMED-OUT: throw the run-failed error
\*   anything else: start the poll-interval timer
RunFetchReturns ==
    /\ pc = "awaitRun"
    /\ \E lat \in Latencies : now' = now + lat
    /\ run' = remote
    /\ Observe(remote)
    /\ IF IsSucceeded(remote.status)
       THEN IF impl = "client"
            THEN /\ pc' = "awaitRun2"
                 /\ fetches' = Bump(fetches)
                 /\ UNCHANGED <<dsReq, result, path>>
            ELSE IF Truthy(remote.defaultDatasetId)
            THEN /\ pc' = "awaitDataset"
                 /\ dsReq' = Some(remote.defaultDatasetId.value)
                 /\ UNCHANGED <<fetches, result, path>>
            ELSE /\ pc' = "done"
                 /\ result' = Outcome(remote, <<>>)
                 /\ path' = "outcome"
                 /\ UNCHANGED <<fetches, dsReq>>
       ELSE IF IsFailedTerminal(remote.status)
       THEN /\ pc' = "done"
            /\ result' = Failure(RunFailedMessage(remote))
            /\ path' = "runFailed"
            /\ UNCHANGED <<fetches, dsReq>>
       ELSE /\ pc' = "sleeping"
            /\ UNCHANGED <<fetches, dsReq, result, path>>
    /\ UNCHANGED <<params, remote, dsRun, dsResp>>

\* the timer fires and the budget is counted afresh from this moment
Wake_ExtendsDeadline ==
    /\ pc = "sleeping"
    /\ \E d \in SleepTimes : now' = now + d
    /\ startTime' = now'
    /\ pc' = "loop"
    /\ run' = NoRun
    /\ UNCHANGED <<impl, runId, maxWaitTime, ext, remote, dsRun, dsReq, dsResp,
                   result, path, fetches, lastStatus, allPending>>

\* the timer fires; the iteration's `run` goes out of scope and control is
\* back at the loop head
Wake ==
    /\ pc = "sleeping"
    /\ \E d \in SleepTimes : now' = now + d
    /\ pc' = "loop"
    /\ run' = NoRun
    /\ UNCHANGED <<params, remote, dsRun, dsReq, dsResp, result, path,
                   fetches, lastStatus, allPending>>

\* client, getRunDataset: the second run fetch returns
RefetchReturns ==
    /\ pc = "awaitRun2"
    /\ \E lat \in Latencies : now' = now + lat
    /\ dsRun' = remote
    /\ Observe(remote)
    /\ IF Truthy(remote.defaultDatasetId)
       THEN /\ pc' = "awaitDataset"
            /\ dsReq' = Some(remote.defaultDatasetId.value)
            /\ UNCHANGED <<result, path>>
       ELSE /\ pc' = "done"
            /\ result' = Outcome(run, <<>>)
            /\ path' = "outcome"
            /\ UNCHANGED dsReq
    /\ UNCHANGED <<params, remote, run, dsResp, fetches>>

\* client, getRunDataset: the second run fetch fails, the catch returns []
RefetchFails ==
    /\ pc = "awaitRun2"
    /\ \E lat \in Latencies : now' = now + lat
    /\ \E cause \in TransportCauses :
          dsResp' = [kind |-> "error", message |-> FetchRunContext \o cause]
    /\ pc' = "done"
    /\ result' = DatasetStepResult(run, dsResp')
    /\ path' = "outcome"
    /\ UNCHANGED <<params, remote, run, dsRun, dsReq, fetches, lastStatus,
                   allPending>>

\* the dataset-items request returns its items
DatasetReturns ==
    /\ pc = "awaitDataset"
    /\ \E lat \in Latencies : now' = now + lat
    /\ \E items \in Datasets : dsResp' = [kind |-> "ok", items |-> items]
    /\ pc' = "done"
    /\ result' = DatasetStepResult(run, dsResp')
    /\ path' = "outcome"
    /\ UNCHANGED <<params, remote, run, dsRun, dsReq, fetches, lastStatus,
                   allPending>>

\* the dataset-items request fails: caught, the dataset stays []
DatasetFails ==
    /\ pc = "awaitDataset"
    /\ \E lat \in Latencies : now' = now + lat
    /\ \E cause \in TransportCauses :
          dsResp' = [kind |-> "error", message |-> cause]
    /\ pc' = "done"
    /\ result' = DatasetStepResult(run, dsResp')
    /\ path' = "outcome"
    /\ UNCHANGED <<params, remote, run, dsRun, dsReq, fetches, lastStatus,
                   allPending>>

Next ==
    \/ RemoteAdvance
    \/ RemoteAllocateDataset
    \/ Timeout
    \/ FetchRun
    \/ RunFetchFails
    \/ RunFetchReturns
    \/ Wake
    \/ RefetchReturns
    \/ RefetchFails
    \/ DatasetReturns
    \/ DatasetFails

Spec ==
    Init /\ [][Next]_vars

TypeOK ==
    /\ impl \in Impls
    /\ pc \in {"loop", "awaitRun", "sleeping", "awaitRun2", "awaitDataset",
               "done"}
    /\ now >= startTime
    /\ fetches \in 0..MaxCount
    /\ result.kind \in {"none", "outcome", "error"}
    /\ (pc = "done") = (result.kind # "none")

\* ------------------------------------------------------------------------
\* Claims
\* ------------------------------------------------------------------------
\* "failed"
failed_lc ==
    <<"f","a","i","l","e","d">>

\* "aborted"
aborted_lc ==
    <<"a","b","o","r","t","e","d">>

\* "timed-out"
timed_out_lc ==
    <<"t","i","m","e","d","-","o","u","t">>

\* the lowercase of each failure status, written out
ExpectedDetail(st) ==
    CASE st = FAILED -> failed_lc
      [] st = ABORTED -> aborted_lc
      [] st = TIMED_OUT -> timed_out_lc

IsPrefix(p, s) ==
    Len(p) <= Len(s) /\ SubSeq(s, 1, Len(p)) = p

\* the part of a run-failed message after "Actor run <detail>: "
MessagePart(msg, st) ==
    SubSeq(msg, Len(ActorRunPrefix) + Len(st) + Len(ColonSpace) + 1, Len(msg))

\* C1: whenever the loop has observed a record whose status is FAILED,
\* ABORTED or TIMED-OUT, it has ended at the run-failed throw with an error
\* (never an outcome) whose message starts "Actor run <lowercase status>: ".
C1_RunFailedDetail ==
    (run # NoRun /\ run.status \in FailureStatuses) =>
        /\ pc = "done"
        /\ path = "runFailed"
        /\ result.kind = "error"
        /\ IsPrefix(ActorRunPrefix \o ExpectedDetail(run.status) \o ColonSpace,
                    result.message)

\* a TIMED-OUT record observed by the server loop after an earlier poll
C1_Witness ==
    /\ pc = "done"
    /\ path = "runFailed"
    /\ run.status = TIMED_OUT
    /\ impl = "server"
    /\ fetches = 2

\* C2 as stated: on the run-failed path the message part is the record's
\* statusMessage whenever the record has one, and "No error message
\* available" when it has none.
C2_MessageWhenPresent ==
    path = "runFailed" =>
        MessagePart(result.message, run.status) =
            (IF run.statusMessage.present THEN run.statusMessage.value
             ELSE NoErrorMessage)

\* C2 amended: on the run-failed path the message part is the record's
\* statusMessage when the record has a non-empty one, and "No error message
\* available" when it has none or an empty one; status FAILED with
\* statusMessage "bad input" gives "Actor run failed: bad input".
C2_MessageWhenNonEmpty ==
    /\ path = "runFailed" =>
          MessagePart(result.message, run.status) =
              (IF run.statusMessage.present /\ Len(run.statusMessage.value) > 0
               THEN run.statusMessage.value
               ELSE NoErrorMessage)
    /\ (path = "runFailed" /\ run.status = FAILED
            /\ run.statusMessage = Some(BadInput)) =>
          result.message = ActorRunPrefix \o failed_lc \o ColonSpace \o BadInput

\* scenario B on the client loop
C2_Witness ==
    /\ path = "runFailed"
    /\ impl = "client"
    /\ run.status = FAILED
    /\ run.statusMessage = Some(BadInput)
    /\ result.message = ActorRunPrefix \o failed_lc \o ColonSpace \o BadInput

\* C3: when the loop returns after observing a SUCCEEDED record that has a
\* defaultDatasetId and the dataset-items request it issued succeeded, that
\* request was for the record's id and the outcome's dataset is the returned
\* item sequence, item for item, however many polls came before.
C3_DatasetIsItems ==
    (pc = "done" /\ run.status = SUCCEEDED /\ run.defaultDatasetId.present
        /\ dsResp.kind = "ok") =>
        /\ result.kind = "outcome"
        /\ dsReq = Some(run.defaultDatasetId.value)
        /\ result.dataset = dsResp.items

\* two items in the order y, x returned after at least one Pending poll
C3_Witness ==
    /\ pc = "done"
    /\ run.status = SUCCEEDED
    /\ run.defaultDatasetId = Some(ds_2)
    /\ dsResp.kind = "ok"
    /\ dsResp.items = <<"y", "x">>
    /\ result.dataset = <<"y", "x">>
    /\ fetches = MaxCount

\* C4 as stated: a loop that returns after observing a SUCCEEDED record
\* without defaultDatasetId returns an empty dataset and has issued no
\* dataset-items request.
C4_NoDatasetRequest ==
    (pc = "done" /\ run.status = SUCCEEDED /\ ~run.defaultDatasetId.present) =>
        /\ result.kind = "outcome"
        /\ result.dataset = <<>>
        /\ ~dsReq.present

\* C5: when the dataset step fails after SUCCEEDED was observed (the items
\* request fails, or the client's second run fetch fails), the loop returns
\* an outcome with status SUCCEEDED and an empty dataset, and no error.
C5_DatasetFailureSwallowed ==
    (pc = "done" /\ dsResp.kind = "error") =>
        /\ path = "outcome"
        /\ result.kind = "outcome"
        /\ result.status = SUCCEEDED
        /\ result.dataset = <<>>

\* the dataset-items request itself was issued and failed
C5_Witness ==
    /\ pc = "done"
    /\ dsReq.present
    /\ dsResp.kind = "error"
    /\ result.kind = "outcome"

\* C6 as stated: a run-status request of the loop is never outstanding with
\* a start time at or past the deadline, i.e. every request the loop head
\* issues starts at an elapsed time strictly below maxWaitTime.
C6_NoFetchAtDeadline ==
    pc = "awaitRun" => Elapsed < maxWaitTime

\* C7 as stated: a loop that has ended having observed only records with a
\* non-terminal status has ended with the timeout error; and under a budget
\* shorter than one poll interval it times out after exactly one fetch.
C7_PendingEndsInTimeout ==
    /\ (pc = "done" /\ allPending) =>
          /\ path = "timeout"
          /\ result = Failure(IF impl = "client" THEN ClientTimeoutMessage
                              ELSE ServerTimeoutMessage)
    /\ (pc = "done" /\ allPending /\ maxWaitTime < pollInterval) =>
          fetches = 1

\* C7 amended: a loop that has ended having observed only records with a
\* non-terminal status has ended with the timeout error, or, when one of its
\* run fetches failed, with that transport failure; never with a run-failed
\* error and never with an outcome.  Under a budget shorter than one poll
\* interval (1000 against 2000) such a loop never issues a second fetch and
\* the timeout is raised after exactly one.
C7_PendingEndsInTimeoutOrTransport ==
    /\ (pc = "done" /\ allPending) =>
          /\ path \in {"timeout", "transport"}
          /\ result.kind = "error"
          /\ path = "timeout" =>
                result = Failure(IF impl = "client" THEN ClientTimeoutMessage
                                 ELSE ServerTimeoutMessage)
    /\ (allPending /\ maxWaitTime < pollInterval) => fetches <= 1
    /\ (pc = "done" /\ path = "timeout" /\ maxWaitTime < pollInterval) =>
          fetches = 1

\* scenario C: budget 1000, interval 2000, first poll RUNNING, timed out
C7_Witness ==
    /\ pc = "done"
    /\ path = "timeout"
    /\ maxWaitTime = 1000
    /\ lastStatus = RUNNING
    /\ allPending
    /\ fetches = 1

C9_OutcomeIffSucceeded ==
    /\ pc = "done" => ((result.kind = "outcome") <=> (lastStatus = SUCCEEDED))
    /\ (dsReq.present \/ dsResp # NoResponse) => lastStatus = SUCCEEDED
    /\ path \in {"runFailed", "timeout", "transport"} =>
          /\ result.kind = "error"
          /\ ~dsReq.present
          /\ dsResp = NoResponse

\* a transport failure of the second poll, after a Pending first poll
C9_Witness ==
    /\ pc = "done"
    /\ path = "transport"
    /\ lastStatus \in PendingStatuses
    /\ result.kind = "error"
    /\ ~dsReq.present

\* status messages chosen to resemble the timeout text
AdversarialMessages ==
    StatusMessages \cup
    {Some(TimeoutTail), Some(NoErrorMessage), Some(ClientTimeoutMessage),
     Some(ServerTimeoutMessage)}

\* every message the run-failed throw can build
RunFailedMessages ==
    {RunFailedMessage(RunRecord(id, st, msg, Absent)) :
        id \in RunIds, st \in FailureStatuses, msg \in AdversarialMessages}

\* C10: the timeout error of each loop carries that loop's one fixed text,
\* whatever run was polled and whatever was observed, and no run-failed
\* message, for any failure status and any statusMessage, equals a timeout
\* text.
C10_TimeoutMessageDistinct ==
    /\ path = "timeout" =>
          /\ result.message =
                (IF impl = "client" THEN ClientTimeoutMessage
                 ELSE ServerTimeoutMessage)
          /\ result.message \notin RunFailedMessages
    /\ path = "runFailed" =>
          result.message \notin {ClientTimeoutMessage, ServerTimeoutMessage}

\* the server loop timed out on a run the platform reports as TIMED-OUT
C10_Witness ==
    /\ path = "timeout"
    /\ impl = "server"
    /\ remote.status = TIMED_OUT
    /\ runId = run_2

\* ------------------------------------------------------------------------
\* The poll-loop variables while another part of the program is examined
\* ------------------------------------------------------------------------
pollVars ==
    <<impl, runId, maxWaitTime, startTime, now, pc, remote, run, dsRun,
      dsReq, dsResp, result, path, fetches, lastStatus, allPending>>

PollOff ==
    /\ impl = "client"
    /\ runId = <<>>
    /\ maxWaitTime = 0
    /\ startTime = 0
    /\ now = 0
    /\ pc = "off"
    /\ remote = NoRun
    /\ run = NoRun
    /\ dsRun = NoRun
    /\ dsReq = Absent
    /\ dsResp = NoResponse
    /\ result = NoResult
    /\ path = "none"
    /\ fetches = 0
    /\ lastStatus = <<>>
    /\ allPending = TRUE

\* ------------------------------------------------------------------------
\* Transport: ApifyClient.makeRequest, makeApifyRequest, ApiClient.makeRequest
\* ------------------------------------------------------------------------
\* "HTTP "  (part_000:24)
HttpPrefix ==
    <<"H","T","T","P"," ">>

\* "Unauthorized"  (a statusText)
Unauthorized ==
    <<"U","n","a","u","t","h","o","r","i","z","e","d">>

\* "Not Found"  (a statusText)
NotFound ==
    <<"N","o","t"," ","F","o","u","n","d">>

\* "Actor not found"  (an error.message of the platform)
ActorNotFound ==
    <<"A","c","t","o","r"," ","n","o","t"," ","f","o","u","n","d">>

\* "Cannot read properties of null (reading 'error')"  (message of the TypeError raised by reading .error of null)
NullErrorTypeError ==
    <<"C","a","n","n","o","t"," ","r","e","a","d"," ","p","r","o","p","e",
      "r","t","i","e","s"," ","o","f"," ","n","u","l","l"," ","(","r","e",
      "a","d","i","n","g"," ","'","e","r","r","o","r","'",")">>

\* "Unexpected token < in JSON at position 0"  (message of the SyntaxError raised by JSON.parse / response.json)
JsonSyntaxError ==
    <<"U","n","e","x","p","e","c","t","e","d"," ","t","o","k","e","n"," ",
      "<"," ","i","n"," ","J","S","O","N"," ","a","t"," ","p","o","s","i",
      "t","i","o","n"," ","0">>


Transports ==
    {"ApifyClient", "makeApifyRequest", "ApiClient"}

DigitChars ==
    <<"0","1","2","3","4","5","6","7","8","9">>

\* the decimal digits of a non-negative integer, as string interpolation
\* writes them
RECURSIVE NumberToString(_)
NumberToString(n) ==
    IF n < 10 THEN <<DigitChars[n + 1]>>
    ELSE NumberToString(n \div 10) \o <<DigitChars[(n % 10) + 1]>>

\* JSON values as far as the transports look into them
Undefined ==
    [t |-> "undefined"]

JNull ==
    [t |-> "null"]

JNumber ==
    [t |-> "number"]

JString(s) ==
    [t |-> "string", chars |-> s]

\* an object with the given `message` member (Undefined: no such member)
JErrorObject(m) ==
    [t |-> "object", message |-> m]

\* an object with the given `error` member (Undefined: no such member)
JBody(e) ==
    [t |-> "object", error |-> e]

ErrorMembers ==
    {Undefined, JNull, JString(ActorNotFound), JErrorObject(Undefined),
     JErrorObject(JString(<<>>)), JErrorObject(JString(ActorNotFound)),
     JErrorObject(JString(BadInput))}

\* what JSON.parse makes of a response body; "invalid" is a body that is
\* not JSON (an HTML error page, an empty body)
ParsedBodies ==
    {[t |-> "invalid"], JNull, JNumber, JString(ActorNotFound)}
    \cup {JBody(e) : e \in ErrorMembers}

StatusLines ==
    {[status |-> 200, statusText |-> <<"O","K">>],
     [status |-> 401, statusText |-> Unauthorized],
     [status |-> 404, statusText |-> NotFound],
     [status |-> 500, statusText |-> <<>>]}

\* what fetch() settles with: a rejection, or a response
FetchResults ==
    {[received |-> FALSE, message |-> FetchFailed]}
    \cup {[received |-> TRUE, status |-> l.status, statusText |-> l.statusText,
           body |-> b] : l \in StatusLines, b \in ParsedBodies}

\* response.ok
ResponseOk(resp) ==
    resp.status >= 200 /\ resp.status <= 299

\* `HTTP ${response.status}: ${response.statusText}`
StatusLineMessage(resp) ==
    HttpPrefix \o NumberToString(resp.status) \o ColonSpace \o resp.statusText

\* reading a member of a JavaScript value: null and undefined throw, an
\* object yields the member, any other value yields undefined
ReadThrows(v) ==
    v.t \in {"null", "undefined"}

ReadError(v) ==
    IF v.t = "object" /\ "error" \in DOMAIN v THEN v.error ELSE Undefined

ReadMessage(v) ==
    IF v.t = "object" /\ "message" \in DOMAIN v THEN v.message ELSE Undefined

\* errorData.error?.message
ErrorMessageOf(errorData) ==
    IF ReadError(errorData).t \in {"null", "undefined"} THEN Undefined
    ELSE ReadMessage(ReadError(errorData))

\* truthiness of the value on the left of `||` (the values used here are
\* undefined or strings)
JTruthy(v) ==
    v.t = "string" /\ v.chars # <<>>

\* errorData.error?.message || <fallback>
MessageOrStatusLine(errorData, resp) ==
    IF JTruthy(ErrorMessageOf(errorData)) THEN ErrorMessageOf(errorData).chars
    ELSE StatusLineMessage(resp)

Thrown(kind, msg, st) ==
    [ok |-> FALSE, kind |-> kind, message |-> msg, status |-> st]

Returned(v) ==
    [ok |-> TRUE, value |-> v]

NoStatus ==
    [present |-> FALSE, value |-> 0]

SomeStatus(n) ==
    [present |-> TRUE, value |-> n]

\* return response.json(): not awaited inside any try, so a body that is
\* not JSON rejects the call with the parser's SyntaxError
JsonOrSyntaxError(resp) ==
    IF resp.body.t = "invalid"
    THEN Thrown("SyntaxError", JsonSyntaxError, NoStatus)
    ELSE Returned(resp.body)

\* the try { JSON.parse ... } catch {} of ApifyClient.makeRequest and
\* makeApifyRequest: a body that does not parse, and a parsed value whose
\* .error cannot be read, both leave the status-line message
GuardedErrorMessage(resp) ==
    IF resp.body.t = "invalid" \/ ReadThrows(resp.body)
    THEN StatusLineMessage(resp)
    ELSE MessageOrStatusLine(resp.body, resp)

\* ApifyClient.makeRequest
ApifyClientMakeRequest(fr) ==
    IF ~fr.received THEN Thrown("TypeError", fr.message, NoStatus)
    ELSE IF ~ResponseOk(fr)
    THEN Thrown("Error", GuardedErrorMessage(fr), NoStatus)
    ELSE JsonOrSyntaxError(fr)

\* makeApifyRequest: as above, with error.status = response.status
MakeApifyRequest(fr) ==
    IF ~fr.received THEN Thrown("TypeError", fr.message, NoStatus)
    ELSE IF ~ResponseOk(fr)
    THEN Thrown("Error", GuardedErrorMessage(fr), SomeStatus(fr.status))
    ELSE JsonOrSyntaxError(fr)

\* response.json().catch(() => ({})): a body that is not JSON becomes {}
JsonOrEmptyObject(resp) ==
    IF resp.body.t = "invalid" THEN JBody(Undefined) ELSE resp.body

\* ApiClient.makeRequest: everything thrown inside its try that is not an
\* ApiError is rethrown as ApiError(message, 0)
ApiClientMakeRequest(fr) ==
    IF ~fr.received THEN Thrown("ApiError", fr.message, SomeStatus(0))
    ELSE IF ~ResponseOk(fr)
    THEN IF ReadThrows(JsonOrEmptyObject(fr))
         THEN Thrown("ApiError", NullErrorTypeError, SomeStatus(0))
         ELSE Thrown("ApiError",
                     MessageOrStatusLine(JsonOrEmptyObject(fr), fr),
                     SomeStatus(fr.status))
    ELSE JsonOrSyntaxError(fr)

MakeRequest(transport, fr) ==
    CASE transport = "ApifyClient" -> ApifyClientMakeRequest(fr)
      [] transport = "makeApifyRequest" -> MakeApifyRequest(fr)
      [] transport = "ApiClient" -> ApiClientMakeRequest(fr)

otherThanHttp ==
    <<pollVars, catalog, mw, app, exec, loops>>

TransportInit ==
    /\ PollOff
    /\ http \in {[stage |-> "called", transport |-> tr] : tr \in Transports}
    /\ catalog = Off
    /\ mw = Off
    /\ app = Off
    /\ exec = Off
    /\ loops = Off

\* fetch() settles
FetchSettles ==
    /\ http.stage = "called"
    /\ \E fr \in FetchResults :
          http' = [stage |-> "fetched", transport |-> http.transport,
                   fetched |-> fr]
    /\ UNCHANGED otherThanHttp

\* the rest of the transport runs: it returns the parsed body or throws
TransportSettles ==
    /\ http.stage = "fetched"
    /\ http' = [stage |-> "settled", transport |-> http.transport,
                fetched |-> http.fetched,
                outcome |-> MakeRequest(http.transport, http.fetched)]
    /\ UNCHANGED otherThanHttp

TransportNext ==
    \/ FetchSettles
    \/ TransportSettles

TransportSpec ==
    TransportInit /\ [][TransportNext]_vars

\* ------------------------------------------------------------------------
\* Claims on the transports
\* ------------------------------------------------------------------------
\* "HTTP 401: Unauthorized"  (the status line of a 401)
Http401Line ==
    <<"H","T","T","P"," ","4","0","1",":"," ","U","n","a","u","t","h","o",
      "r","i","z","e","d">>

\* "HTTP 500: "  (the status line of a 500 without reason phrase)
Http500Line ==
    <<"H","T","T","P"," ","5","0","0",":"," ">>


\* the fallback text of each non-success status line, written out
ExpectedStatusLine(resp) ==
    CASE resp.status = 401 -> Http401Line
      [] resp.status = 404 -> Http404
      [] resp.status = 500 -> Http500Line

\* the body is a JSON object whose error member is an object with a
\* non-empty string message
HasErrorMessage(body) ==
    /\ body.t = "object"
    /\ body.error.t = "object"
    /\ body.error.message.t = "string"
    /\ Len(body.error.message.chars) > 0

\* C11 as stated, reading "has that field" as "has a non-empty message
\* there": for every response with a non-success status, each of the three
\* transports fails with the body's error.message when the body is JSON that
\* has one, and with "HTTP <status>: <statusText>" in every other case (body
\* not JSON, JSON without error.message, JSON that is not an object).
C11_NonSuccessMessage ==
    (http.stage = "settled" /\ http.fetched.received
        /\ http.fetched.status \notin 200..299) =>
        /\ ~http.outcome.ok
        /\ http.outcome.message =
              (IF HasErrorMessage(http.fetched.body)
               THEN http.fetched.body.error.message.chars
               ELSE ExpectedStatusLine(http.fetched))

\* C12 as stated: a failed ApiClient.makeRequest carries status 0 only when
\* fetch() delivered no response; when a response was received the failure
\* is an ApiError carrying that response's status.
C12_StatusZeroOnlyWithoutResponse ==
    (http.stage = "settled" /\ http.transport = "ApiClient"
        /\ ~http.outcome.ok) =>
        /\ http.outcome.kind = "ApiError"
        /\ http.outcome.status.present
        /\ http.outcome.status.value = 0 => ~http.fetched.received
        /\ http.fetched.received =>
              http.outcome.status.value = http.fetched.status

\* ------------------------------------------------------------------------
\* Schema accessor: ApifyClient.getActorSchema, the proxy's schema route and
\* ApiClient.getActorSchema
\* ------------------------------------------------------------------------
\* "No input schema found for this actor"  (part_000:60, SuccessMessage.tsx:753)
NoInputSchema ==
    <<"N","o"," ","i","n","p","u","t"," ","s","c","h","e","m","a"," ","f",
      "o","u","n","d"," ","f","o","r"," ","t","h","i","s"," ","a","c","t",
      "o","r">>

\* "Failed to fetch actor schema: "  (part_000:65, apiClient.ts:65)
SchemaContext ==
    <<"F","a","i","l","e","d"," ","t","o"," ","f","e","t","c","h"," ","a",
      "c","t","o","r"," ","s","c","h","e","m","a",":"," ">>

\* "API key is required"  (SuccessMessage.tsx:685)
ApiKeyRequired ==
    <<"A","P","I"," ","k","e","y"," ","i","s"," ","r","e","q","u","i","r",
      "e","d">>

\* a bound on the number of getActorSchema calls one behaviour makes
MaxSchemaCalls ==
    2

SchemaClients ==
    {"ApifyClient", "ApiClient"}

\* an input schema as the platform declares it
SchemaObject ==
    [t |-> "object", title |-> "Input"]

InputSchemas ==
    {Undefined, JNull, SchemaObject}

\* the defaultRunOptions member of a job definition
DefaultRunOptions ==
    {Undefined, JNull} \cup {[t |-> "object", inputSchema |-> s] : s \in InputSchemas}

\* the body {data: {defaultRunOptions: ...}} of a job definition
ActorDefinitionBody(o) ==
    [t |-> "object", data |-> [t |-> "object", defaultRunOptions |-> o]]

\* what the platform answers to GET /acts/<actorId>: a failure of the
\* transport, or a job definition
ActorResponses ==
    {fr \in FetchResults : ~fr.received \/ ~ResponseOk(fr)}
    \cup {[received |-> TRUE, status |-> 200, statusText |-> <<"O","K">>,
           body |-> ActorDefinitionBody(o)] : o \in DefaultRunOptions}

\* response.data.defaultRunOptions?.inputSchema
InputSchemaOf(data) ==
    IF ReadThrows(data.defaultRunOptions) THEN Undefined
    ELSE data.defaultRunOptions.inputSchema

\* !value, for the values a schema can be
JFalsy(v) ==
    v.t \in {"undefined", "null"} \/ (v.t = "string" /\ v.chars = <<>>)

\* ApifyClient.getActorSchema: the no-schema throw happens inside the try
\* whose catch rewraps every error
ApifyClientGetActorSchema(fr) ==
    LET response == ApifyClientMakeRequest(fr) IN
    IF ~response.ok
    THEN Thrown("Error", SchemaContext \o response.message, NoStatus)
    ELSE IF JFalsy(InputSchemaOf(response.value.data))
    THEN Thrown("Error", SchemaContext \o NoInputSchema, NoStatus)
    ELSE Returned(InputSchemaOf(response.value.data))

\* a reply of the proxy, as the browser's fetch() receives it
ProxyReply(st, text, body) ==
    [received |-> TRUE, status |-> st, statusText |-> text, body |-> body]

\* validateApiKey answering a request that carries no key
ApiKeyRequiredReply ==
    ProxyReply(401, Unauthorized, JBody(JErrorObject(JString(ApiKeyRequired))))

\* router.get('/actors/:actorId/schema') for a job definition the platform
\* delivered
SchemaRouteReply(fr) ==
    LET response == MakeApifyRequest(fr) IN
    IF JFalsy(InputSchemaOf(response.value.data))
    THEN ProxyReply(404, NotFound, JBody(JErrorObject(JString(NoInputSchema))))
    ELSE ProxyReply(200, <<"O","K">>,
                    [t |-> "object", data |-> InputSchemaOf(response.value.data)])

\* what ApiClient's fetch() settles with: no connection to the proxy, a
\* request the proxy refuses for want of a key, or the schema route's reply
\* to a job definition
ProxySchemaReplies ==
    {[received |-> FALSE, message |-> FetchFailed], ApiKeyRequiredReply}
    \cup {SchemaRouteReply(fr) : fr \in {r \in ActorResponses : r.received /\ ResponseOk(r)}}

\* ApiClient.getActorSchema
ApiClientGetActorSchema(reply) ==
    LET response == ApiClientMakeRequest(reply) IN
    IF ~response.ok
    THEN Thrown("Error", SchemaContext \o response.message, NoStatus)
    ELSE Returned(response.value.data)

\* why a call failed, read off what was sent back, not off the error
PlatformCause(fr) ==
    IF ~fr.received \/ ~ResponseOk(fr) THEN "transport"
    ELSE IF JFalsy(InputSchemaOf(fr.body.data)) THEN "noSchema"
    ELSE "none"

ProxyCause(reply) ==
    IF ~reply.received \/ reply = ApiKeyRequiredReply THEN "transport"
    ELSE IF ~ResponseOk(reply) THEN "noSchema"
    ELSE "none"

otherThanCatalog ==
    <<pollVars, http, mw, app, exec, loops>>

SchemaInit ==
    /\ PollOff
    /\ http = Off
    /\ catalog \in {[stage |-> "idle", client |-> c, calls |-> <<>>] :
                      c \in SchemaClients}
    /\ mw = Off
    /\ app = Off
    /\ exec = Off
    /\ loops = Off

\* getActorSchema(actorId) is called
GetActorSchemaCalled ==
    /\ catalog.stage = "idle"
    /\ Len(catalog.calls) < MaxSchemaCalls
    /\ catalog' = [catalog EXCEPT !.stage = "awaiting"]
    /\ UNCHANGED otherThanCatalog

\* the platform answers ApifyClient.getActorSchema
ApifyClientSchemaSettles ==
    /\ catalog.stage = "awaiting"
    /\ catalog.client = "ApifyClient"
    /\ \E fr \in ActorResponses :
          catalog' = [catalog EXCEPT
                        !.stage = "idle",
                        !.calls = Append(@, [cause |-> PlatformCause(fr),
                                             outcome |-> ApifyClientGetActorSchema(fr)])]
    /\ UNCHANGED otherThanCatalog

\* the proxy answers ApiClient.getActorSchema
ApiClientSchemaSettles ==
    /\ catalog.stage = "awaiting"
    /\ catalog.client = "ApiClient"
    /\ \E reply \in ProxySchemaReplies :
          catalog' = [catalog EXCEPT
                        !.stage = "idle",
                        !.calls = Append(@, [cause |-> ProxyCause(reply),
                                             outcome |-> ApiClientGetActorSchema(reply)])]
    /\ UNCHANGED otherThanCatalog

SchemaNext ==
    \/ GetActorSchemaCalled
    \/ ApifyClientSchemaSettles
    \/ ApiClientSchemaSettles

SchemaSpec ==
    SchemaInit /\ [][SchemaNext]_vars

\* the shape of a message: the fixed context it begins with, the cause
\* text left open
MessageShape(msg) ==
    IF IsPrefix(SchemaContext, msg) THEN "Failed to fetch actor schema: <cause>"
    ELSE "<cause>"

ErrorShape(o) ==
    [kind |-> o.kind, status |-> o.status, shape |-> MessageShape(o.message)]

\* C13 as stated: a getActorSchema call that fails because the job has no
\* input schema and a call of the same accessor that fails in the transport
\* never reach the caller with the same error kind, status and message
\* shape.
C13_NoSchemaDistinctFromTransport ==
    \A i, j \in DOMAIN catalog.calls :
        (catalog.calls[i].cause = "noSchema" /\ catalog.calls[j].cause = "transport")
            => ErrorShape(catalog.calls[i].outcome) # ErrorShape(catalog.calls[j].outcome)

\* ------------------------------------------------------------------------
\* Listing: ApifyClient.getActors and the proxy's actors route
\* ------------------------------------------------------------------------
\* "No description available"  (part_000:46, SuccessMessage.tsx:733)
NoDescription ==
    <<"N","o"," ","d","e","s","c","r","i","p","t","i","o","n"," ","a","v",
      "a","i","l","a","b","l","e">>

\* a bound on the number of job records in one listing
MaxActors ==
    1

\* a JSON number with its value
JNum(n) ==
    [t |-> "number", n |-> n]

ListingImpls ==
    {"ApifyClient", "proxy"}

\* the optional text members of a remote job record
OptionalTexts ==
    {Undefined, JString(<<>>), JString(<<"T">>)}

\* the stats member of a remote job record: free-form, possibly without
\* totalRuns
RemoteStats ==
    {Undefined, JNull, [t |-> "object"]}
    \cup {[t |-> "object", totalRuns |-> r] : r \in {JNull, JNum(0), JNum(7)}}

RemoteActors ==
    [id : {<<"a","1">>}, name : {JString(<<"n","1">>)},
     title : OptionalTexts, description : OptionalTexts, stats : RemoteStats]

\* a || b
JOr(a, b) ==
    IF JFalsy(a) THEN b ELSE a

\* the object literal of the map callback in getActors and in the route
ActorSummary(actor) ==
    [id |-> actor.id,
     name |-> actor.name,
     title |-> JOr(actor.title, actor.name),
     description |-> JOr(actor.description, JString(NoDescription)),
     stats |-> JOr(actor.stats, [t |-> "object", totalRuns |-> JNum(0)])]

\* response.data.items.map(...)
MapActors(items) ==
    [i \in DOMAIN items |-> ActorSummary(items[i])]

\* summary.stats.totalRuns
TotalRunsOf(stats) ==
    IF "totalRuns" \in DOMAIN stats THEN stats.totalRuns ELSE Undefined

ListingInit ==
    /\ PollOff
    /\ http = Off
    /\ catalog \in {[stage |-> "called", impl |-> i] : i \in ListingImpls}
    /\ mw = Off
    /\ app = Off
    /\ exec = Off
    /\ loops = Off

\* the platform answers /acts?my=true&limit=100
ListingResponds ==
    /\ catalog.stage = "called"
    /\ \E n \in 1..MaxActors : \E items \in [1..n -> RemoteActors] :
          catalog' = [stage |-> "fetched", impl |-> catalog.impl, items |-> items]
    /\ UNCHANGED otherThanCatalog

\* the items are mapped to summaries (by getActors itself, or by the route,
\* whose reply ApiClient.getActors hands on as it is)
ListingMaps ==
    /\ catalog.stage = "fetched"
    /\ catalog' = [stage |-> "listed", impl |-> catalog.impl,
                   items |-> catalog.items, actors |-> MapActors(catalog.items)]
    /\ UNCHANGED otherThanCatalog

ListingNext ==
    \/ ListingResponds
    \/ ListingMaps

ListingSpec ==
    ListingInit /\ [][ListingNext]_vars

\* the record supplies this text
HasText(v) ==
    v.t = "string" /\ Len(v.chars) > 0

SuppliesTotalRuns(stats) ==
    /\ stats.t = "object"
    /\ "totalRuns" \in DOMAIN stats
    /\ stats.totalRuns.t = "number"

\* C14 as stated: every listed summary has the record's title or else its
\* name, the record's description or else "No description available", and a
\* stats.totalRuns that is a number: the record's own when it supplies one,
\* 0 when it supplies none.
C14_SummaryDefaults ==
    catalog.stage = "listed" =>
        \A i \in DOMAIN catalog.items :
            LET a == catalog.items[i]
                s == catalog.actors[i]
            IN  /\ s.title = (IF HasText(a.title) THEN a.title ELSE a.name)
                /\ s.description = (IF HasText(a.description) THEN a.description
                                    ELSE JString(NoDescription))
                /\ s.stats.t = "object"
                /\ TotalRunsOf(s.stats) =
                      (IF SuppliesTotalRuns(a.stats) THEN a.stats.totalRuns
                       ELSE JNum(0))

\* ------------------------------------------------------------------------
\* The App component: its state, its handlers and what it renders
\* ------------------------------------------------------------------------
\* "Please enter your Apify API key"  (SuccessMessage.tsx:358)
EnterApiKey ==
    <<"P","l","e","a","s","e"," ","e","n","t","e","r"," ","y","o","u","r",
      " ","A","p","i","f","y"," ","A","P","I"," ","k","e","y">>

\* "Failed to fetch actors: "  (apiClient.ts:56)
ActorsContext ==
    <<"F","a","i","l","e","d"," ","t","o"," ","f","e","t","c","h"," ","a",
      "c","t","o","r","s",":"," ">>

\* "Failed to start actor run: "  (apiClient.ts:78)
StartContext ==
    <<"F","a","i","l","e","d"," ","t","o"," ","s","t","a","r","t"," ","a",
      "c","t","o","r"," ","r","u","n",":"," ">>

\* "Failed to wait for run completion: "  (apiClient.ts:106)
WaitContext ==
    <<"F","a","i","l","e","d"," ","t","o"," ","w","a","i","t"," ","f","o",
      "r"," ","r","u","n"," ","c","o","m","p","l","e","t","i","o","n",":",
      " ">>

\* a bound on the number of handler invocations suspended at an await
MaxTasks ==
    2

\* what the key field can hold: nothing, a blank, a key
ApiKeys ==
    {<<>>, <<" ">>, <<"k">>}

RECURSIVE TrimStart(_)
TrimStart(s) ==
    IF s # <<>> /\ Head(s) = " " THEN TrimStart(Tail(s)) ELSE s

RECURSIVE TrimEnd(_)
TrimEnd(s) ==
    IF s # <<>> /\ s[Len(s)] = " " THEN TrimEnd(SubSeq(s, 1, Len(s) - 1)) ELSE s

\* apiKey.trim()
Trim(s) ==
    TrimEnd(TrimStart(s))

ActorIds ==
    {<<"a","1">>, <<"a","2">>}

\* selectedActor === null
NoActor ==
    <<>>

\* the schema the platform declares for an actor
SchemaFor(a) ==
    [t |-> "object", title |-> a]

\* useState<ExecutionState>({ status: 'idle' })
IdleExecution ==
    [status |-> "idle", runId |-> Absent, results |-> Absent,
     error |-> Absent, startTime |-> Absent]

\* new Date()
StartedAt ==
    Some(<<"t">>)

\* the transport's error handed on as it is
ApiClientCall_NoContext(context, reply) ==
    LET response == ApiClientMakeRequest(reply) IN
    IF ~response.ok THEN response ELSE Returned(response.value.data)

\* ApiClient.getActors / runActor / waitForRun: the parsed reply's data, or
\* the transport's error with the call's context prepended
ApiClientCall(context, reply) ==
    LET response == ApiClientMakeRequest(reply) IN
    IF ~response.ok
    THEN Thrown("Error", context \o response.message, NoStatus)
    ELSE Returned(response.value.data)

\* replies ApiClient's fetch() can settle with, for a route whose success
\* reply carries `data`
ProxyReplies(data) ==
    {[received |-> FALSE, message |-> FetchFailed], ApiKeyRequiredReply,
     ProxyReply(200, <<"O","K">>, [t |-> "object", data |-> data])}

\* the schema route's replies for actor a
SchemaRepliesFor(a) ==
    {[received |-> FALSE, message |-> FetchFailed], ApiKeyRequiredReply,
     ProxyReply(404, NotFound, JBody(JErrorObject(JString(NoInputSchema)))),
     ProxyReply(200, <<"O","K">>, [t |-> "object", data |-> SchemaFor(a)])}

AppInitial ==
    [stage |-> "mounted",
     apiKey |-> <<>>,
     isAuthenticated |-> FALSE,
     authError |-> <<>>,
     actors |-> {},
     selectedActor |-> NoActor,
     actorSchema |-> JNull,
     isLoadingActors |-> FALSE,
     isLoadingSchema |-> FALSE,
     execution |-> IdleExecution,
     tasks |-> {},
     last |-> "mounted"]

\* what the component's return statement puts on the screen
Rendered(a) ==
    IF ~a.isAuthenticated
    THEN {"login"} \cup (IF a.authError # <<>> THEN {"errorMessage"} ELSE {})
    ELSE {"progress"}
         \cup (IF a.selectedActor = NoActor THEN {"actorSelector"} ELSE {"actorHeader"})
         \cup (IF a.selectedActor # NoActor /\ a.isLoadingSchema
               THEN {"schemaLoading"} ELSE {})
         \cup (IF a.selectedActor # NoActor /\ ~a.isLoadingSchema
                  /\ ~JFalsy(a.actorSchema)
               THEN {"schemaForm"} ELSE {})
         \cup (IF a.execution.status = "running" THEN {"executing"} ELSE {})
         \cup (IF a.execution.status = "completed" THEN {"resultsPanel"} ELSE {})
         \cup (IF a.execution.status = "failed" THEN {"failurePanel"} ELSE {})

otherThanApp ==
    <<pollVars, http, catalog, mw, exec, loops>>

AppInit ==
    /\ PollOff
    /\ http = Off
    /\ catalog = Off
    /\ mw = Off
    /\ app = AppInitial
    /\ exec = Off
    /\ loops = Off

\* onChange of the key field
TypeApiKey ==
    /\ "login" \in Rendered(app)
    /\ \E k \in ApiKeys :
          /\ k # app.apiKey
          /\ app' = [app EXCEPT !.apiKey = k, !.last = "user"]
    /\ UNCHANGED otherThanApp

\* handleAuthentication up to its await (the Enter key starts it even while
\* the button is disabled)
HandleAuthentication ==
    /\ "login" \in Rendered(app)
    /\ IF Trim(app.apiKey) = <<>>
       THEN app' = [app EXCEPT !.authError = EnterApiKey, !.last = "user"]
       ELSE /\ Cardinality(app.tasks) < MaxTasks
            /\ app' = [app EXCEPT
                         !.isLoadingActors = TRUE,
                         !.authError = <<>>,
                         !.tasks = @ \cup {[kind |-> "auth", key |-> app.apiKey]},
                         !.last = "user"]
    /\ UNCHANGED otherThanApp

\* handleAuthentication after apiClient.getActors() settled
AuthenticationSettles ==
    /\ \E task \in app.tasks : \E reply \in ProxyReplies(ActorIds) :
          LET userActors == ApiClientCall(ActorsContext, reply) IN
          /\ task.kind = "auth"
          /\ app' = IF userActors.ok
                    THEN [app EXCEPT
                            !.actors = userActors.value,
                            !.isAuthenticated = TRUE,
                            !.isLoadingActors = FALSE,
                            !.tasks = @ \ {task},
                            !.last = "authenticated"]
                    ELSE [app EXCEPT
                            !.authError = userActors.message,
                            !.isLoadingActors = FALSE,
                            !.tasks = @ \ {task},
                            !.last = "authFailed"]
    /\ UNCHANGED otherThanApp

\* handleActorSelection up to its await
HandleActorSelection ==
    /\ "actorSelector" \in Rendered(app)
    /\ Cardinality(app.tasks) < MaxTasks
    /\ \E actor \in app.actors :
          app' = [app EXCEPT
                    !.selectedActor = actor,
                    !.isLoadingSchema = TRUE,
                    !.actorSchema = JNull,
                    !.execution = IdleExecution,
                    !.tasks = @ \cup {[kind |-> "schema", actor |-> actor]},
                    !.last = "user"]
    /\ UNCHANGED otherThanApp

\* handleActorSelection after apiClient.getActorSchema(actor.id) settled
SchemaLoadSettles ==
    /\ \E task \in app.tasks :
          /\ task.kind = "schema"
          /\ \E reply \in SchemaRepliesFor(task.actor) :
                LET schema == ApiClientGetActorSchema(reply) IN
                app' = IF schema.ok
                       THEN [app EXCEPT
                               !.actorSchema = schema.value,
                               !.isLoadingSchema = FALSE,
                               !.tasks = @ \ {task},
                               !.last = "schemaLoaded"]
                       ELSE [app EXCEPT
                               !.authError = schema.message,
                               !.isLoadingSchema = FALSE,
                               !.tasks = @ \ {task},
                               !.last = "schemaFailed"]
    /\ UNCHANGED otherThanApp

\* the close button of the selected actor's header
DeselectActor ==
    /\ "actorHeader" \in Rendered(app)
    /\ app' = [app EXCEPT
                 !.selectedActor = NoActor,
                 !.actorSchema = JNull,
                 !.execution = IdleExecution,
                 !.last = "user"]
    /\ UNCHANGED otherThanApp

\* handleExecution up to its first await; the closure keeps the selectedActor
\* and the execution of the render the form was submitted from
HandleExecution ==
    /\ "schemaForm" \in Rendered(app)
    /\ app.execution.status # "running"
    /\ Cardinality(app.tasks) < MaxTasks
    /\ app' = [app EXCEPT
                 !.execution = [IdleExecution EXCEPT !.status = "running",
                                                     !.startTime = StartedAt],
                 !.tasks = @ \cup {[kind |-> "run", actor |-> app.selectedActor,
                                    startTime |-> app.execution.startTime]},
                 !.last = "user"]
    /\ UNCHANGED otherThanApp

\* handleExecution after apiClient.runActor(...) settled
RunActorSettles ==
    /\ \E task \in app.tasks : \E id \in RunIds :
       \E reply \in ProxyReplies([runId |-> id]) :
          LET started == ApiClientCall(StartContext, reply) IN
          /\ task.kind = "run"
          /\ app' = IF started.ok
                    THEN [app EXCEPT
                            !.execution.runId = Some(started.value.runId),
                            !.tasks = (@ \ {task})
                                \cup {[kind |-> "wait", runId |-> started.value.runId,
                                       startTime |-> task.startTime]},
                            !.last = "runStarted"]
                    ELSE [app EXCEPT
                            !.execution = [IdleExecution EXCEPT
                                             !.status = "failed",
                                             !.error = Some(started.message),
                                             !.startTime = task.startTime],
                            !.tasks = @ \ {task},
                            !.last = "runFailed"]
    /\ UNCHANGED otherThanApp

\* handleExecution after apiClient.waitForRun(runId) settled
WaitForRunSettles ==
    /\ \E task \in app.tasks : \E reply \in ProxyReplies(<<"outcome">>) :
          LET results == ApiClientCall(WaitContext, reply) IN
          /\ task.kind = "wait"
          /\ app' = IF results.ok
                    THEN [app EXCEPT
                            !.execution = [IdleExecution EXCEPT
                                             !.status = "completed",
                                             !.runId = Some(task.runId),
                                             !.results = Some(results.value),
                                             !.startTime = task.startTime],
                            !.tasks = @ \ {task},
                            !.last = "runCompleted"]
                    ELSE [app EXCEPT
                            !.execution = [IdleExecution EXCEPT
                                             !.status = "failed",
                                             !.error = Some(results.message),
                                             !.startTime = task.startTime],
                            !.tasks = @ \ {task},
                            !.last = "runFailed"]
    /\ UNCHANGED otherThanApp

\* onReset of ExecutionResults
ResetExecution ==
    /\ Rendered(app) \cap {"resultsPanel", "failurePanel"} # {}
    /\ app' = [app EXCEPT !.execution = IdleExecution, !.last = "user"]
    /\ UNCHANGED otherThanApp

\* resetApp: the header's Reset button
ResetApp ==
    /\ app.isAuthenticated
    /\ app' = [app EXCEPT
                 !.isAuthenticated = FALSE,
                 !.apiKey = <<>>,
                 !.actors = {},
                 !.selectedActor = NoActor,
                 !.actorSchema = JNull,
                 !.execution = IdleExecution,
                 !.authError = <<>>,
                 !.last = "user"]
    /\ UNCHANGED otherThanApp

AppNext ==
    \/ TypeApiKey
    \/ HandleAuthentication
    \/ AuthenticationSettles
    \/ HandleActorSelection
    \/ SchemaLoadSettles
    \/ DeselectActor
    \/ HandleExecution
    \/ RunActorSettles
    \/ WaitForRunSettles
    \/ ResetExecution
    \/ ResetApp

AppSpec ==
    AppInit /\ [][AppNext]_vars

\* C15 as stated: each of the four outcomes is on the screen once it has
\* happened: (a) a failed authentication shows the error message on the
\* login screen, (b) a failed schema load shows an error message while the
\* actor is selected on the authenticated screen, (c) a completed run shows
\* the results panel, (d) a failed or timed-out run shows the failure panel
\* with its error text.
C15_EveryOutcomeHasSurface ==
    /\ (app.last = "authFailed" /\ ~app.isAuthenticated)
          => "errorMessage" \in Rendered(app)
    /\ (app.last = "schemaFailed" /\ app.isAuthenticated
           /\ app.selectedActor # NoActor)
          => "errorMessage" \in Rendered(app)
    /\ (app.last = "runCompleted" /\ app.isAuthenticated)
          => "resultsPanel" \in Rendered(app)
    /\ (app.last = "runFailed" /\ app.isAuthenticated)
          => /\ "failurePanel" \in Rendered(app)
             /\ Truthy(app.execution.error)

\* ------------------------------------------------------------------------
\* The proxy: validateApiKey and the routes behind it
\* ------------------------------------------------------------------------
\* "Bearer "  (SuccessMessage.tsx:683, 695)
BearerSpace ==
    <<"B","e","a","r","e","r"," ">>

\* "Bearer"  (an Authorization header naming the scheme and no key)
Bearer ==
    <<"B","e","a","r","e","r">>

\* two API keys
key_1 ==
    <<"k","1">>

key_2 ==
    <<"k","2">>

\* the routes of the router, by what follows /api/apify
Endpoints ==
    {"actors", "schema", "runs", "run", "dataset", "wait"}

\* req.headers.authorization: no header, an empty one, the scheme without
\* a key (with and without the blank), a key with and without the scheme
AuthorizationHeaders ==
    {Undefined, JString(<<>>), JString(BearerSpace), JString(Bearer),
     JString(BearerSpace \o key_1), JString(BearerSpace \o key_2),
     JString(key_1)}

\* the requests the proxy serves at the same time
ProxyRequests ==
    {1, 2}

\* the positions at which pattern p occurs in s
Occurrences(s, p) ==
    {i \in 1..(Len(s) - Len(p) + 1) : SubSeq(s, i, i + Len(p) - 1) = p}

\* s.replace(p, r) for a string pattern: the first occurrence only
Replace(s, p, r) ==
    IF Occurrences(s, p) = {} THEN s
    ELSE LET i == CHOOSE k \in Occurrences(s, p) :
                     \A m \in Occurrences(s, p) : k <= m
         IN  SubSeq(s, 1, i - 1) \o r \o SubSeq(s, i + Len(p), Len(s))

\* req.headers.authorization?.replace('Bearer ', '')
ApiKeyOf(authorization) ==
    IF authorization.t = "undefined" THEN Undefined
    ELSE JString(Replace(authorization.chars, BearerSpace, <<>>))

\* the first remote path each route asks for
RemotePath(endpoint) ==
    CASE endpoint = "actors" -> "/acts?my=true&limit=100"
      [] endpoint = "schema" -> "/acts/:actorId"
      [] endpoint = "runs" -> "/acts/:actorId/runs"
      [] endpoint = "run" -> "/actor-runs/:runId"
      [] endpoint = "dataset" -> "/actor-runs/:runId"
      [] endpoint = "wait" -> "/actor-runs/:runId"

\* makeApifyRequest(endpoint, apiKey): the request it sends
RemoteRequest(url, apiKey) ==
    [url |-> url, authorization |-> BearerSpace \o apiKey]

otherThanMw ==
    <<pollVars, http, catalog, app, exec, loops>>

ProxyInit ==
    /\ PollOff
    /\ http = Off
    /\ catalog = Off
    /\ mw \in [stage : {"serving"},
               reqs : [ProxyRequests ->
                         [stage : {"received"}, endpoint : Endpoints,
                          authorization : AuthorizationHeaders,
                          remote : {<<>>}]]]
    /\ app = Off
    /\ exec = Off
    /\ loops = Off

\* validateApiKey
ValidateApiKey(i) ==
    LET req == mw.reqs[i]
        apiKey == ApiKeyOf(req.authorization)
    IN  /\ req.stage = "received"
        /\ mw' = [mw EXCEPT !.reqs[i] =
                    IF JFalsy(apiKey)
                    THEN [stage |-> "replied", endpoint |-> req.endpoint,
                          authorization |-> req.authorization, remote |-> <<>>,
                          reply |-> ApiKeyRequiredReply]
                    ELSE [stage |-> "validated", endpoint |-> req.endpoint,
                          authorization |-> req.authorization, remote |-> <<>>,
                          apiKey |-> apiKey.chars]]
        /\ UNCHANGED otherThanMw

\* the route handler's first makeApifyRequest(..., req.apiKey)
RouteRequests(i) ==
    LET req == mw.reqs[i] IN
    /\ req.stage = "validated"
    /\ mw' = [mw EXCEPT
                !.reqs[i].stage = "requested",
                !.reqs[i].remote =
                    <<RemoteRequest(RemotePath(req.endpoint), req.apiKey)>>]
    /\ UNCHANGED otherThanMw

\* the dataset route's second makeApifyRequest(..., req.apiKey)
DatasetRouteRequestsItems(i) ==
    LET req == mw.reqs[i] IN
    /\ req.stage = "requested"
    /\ req.endpoint = "dataset"
    /\ Len(req.remote) = 1
    /\ mw' = [mw EXCEPT
                !.reqs[i].remote =
                    Append(@, RemoteRequest("/datasets/:datasetId/items?format=json",
                                            req.apiKey))]
    /\ UNCHANGED otherThanMw

ProxyNext ==
    \/ \E i \in ProxyRequests : ValidateApiKey(i)
    \/ \E i \in ProxyRequests : RouteRequests(i)
    \/ \E i \in ProxyRequests : DatasetRouteRequestsItems(i)

ProxySpec ==
    ProxyInit /\ [][ProxyNext]_vars

\* what is left of a header value once the scheme is taken off and blanks
\* are trimmed: the API key it carries
CarriedKey(authorization) ==
    IF authorization.t = "undefined" THEN <<>>
    ELSE IF IsPrefix(Bearer, authorization.chars)
    THEN Trim(SubSeq(authorization.chars, Len(Bearer) + 1,
                     Len(authorization.chars)))
    ELSE Trim(authorization.chars)

\* C16 as stated: a request whose Authorization header carries no API key
\* is answered 401 'API key is required' and never leads to a remote
\* request; every remote request carries the key of the request it is
\* issued for.
C16_NoKeyNoRemoteRequest ==
    \A i \in ProxyRequests :
        LET req == mw.reqs[i] IN
        /\ CarriedKey(req.authorization) = <<>> =>
              /\ req.remote = <<>>
              /\ req.stage # "received" =>
                    /\ req.stage = "replied"
                    /\ req.reply.status = 401
                    /\ req.reply.body.error.message.chars = ApiKeyRequired
        /\ \A k \in DOMAIN req.remote :
              req.remote[k].authorization
                  = BearerSpace \o CarriedKey(req.authorization)

\* ------------------------------------------------------------------------
\* One poll loop as a value: what it does from one await to the next
\* ------------------------------------------------------------------------
\* the local values of one execution of waitForRun / of the wait route
NewLoop(i, id, apiKey, maxWait) ==
    [impl |-> i, runId |-> id, apiKey |-> apiKey, maxWaitTime |-> maxWait,
     pc |-> "loop", run |-> NoRun, requests |-> <<>>, result |-> NoResult,
     path |-> "none"]

\* the run request built from a run id shared by all loops
RunRequest_SharedRunId(l) ==
    [kind |-> "run", id |-> run_1, authorization |-> BearerSpace \o l.apiKey]

\* makeRequest(`/actor-runs/${runId}`) with `Bearer ${apiKey}`
RunRequest(l) ==
    [kind |-> "run", id |-> l.runId, authorization |-> BearerSpace \o l.apiKey]

\* makeRequest(`/datasets/${datasetId}/items?format=json`)
ItemsRequest(l, datasetId) ==
    [kind |-> "items", id |-> datasetId,
     authorization |-> BearerSpace \o l.apiKey]

Ended(l, res, site) ==
    [l EXCEPT !.pc = "done", !.result = res, !.path = site]

\* the dataset step for the record holding the dataset id: the items
\* request, or [] at once when there is no id
DatasetStep(l, holder) ==
    IF Truthy(holder.defaultDatasetId)
    THEN [l EXCEPT !.pc = "awaitDataset",
                   !.requests = Append(@, ItemsRequest(l, holder.defaultDatasetId.value))]
    ELSE Ended(l, Outcome(l.run, <<>>), "outcome")

\* the loop head with the clock reading `elapsed`
LoopHead(l, elapsed) ==
    IF MayPoll(l.impl, elapsed, l.maxWaitTime)
    THEN [l EXCEPT !.pc = "awaitRun", !.requests = Append(@, RunRequest(l))]
    ELSE Ended(l, Failure(TimeoutMessage(l.impl)), "timeout")

\* the run request of the loop settles with obs
RunObserved(l, obs) ==
    IF obs.kind = "error"
    THEN Ended(l, Failure(RunFetchErrorMessage(l.impl, obs.message)), "transport")
    ELSE IF IsSucceeded(obs.record.status)
    THEN IF l.impl = "client"
         THEN [l EXCEPT !.run = obs.record, !.pc = "awaitRun2",
                        !.requests = Append(@, RunRequest(l))]
         ELSE DatasetStep([l EXCEPT !.run = obs.record], obs.record)
    ELSE IF IsFailedTerminal(obs.record.status)
    THEN Ended([l EXCEPT !.run = obs.record],
               Failure(RunFailedMessage(obs.record)), "runFailed")
    ELSE [l EXCEPT !.pc = "sleeping"]

\* the run request of getRunDataset settles with obs
RunObservedAgain(l, obs) ==
    IF obs.kind = "error"
    THEN Ended(l, DatasetStepResult(l.run, obs), "outcome")
    ELSE DatasetStep(l, obs.record)

\* one step of the loop: from its position to the next await, return or
\* throw, given what the clock, the run request and the items request
\* deliver
LoopStep(l, elapsed, obs, resp) ==
    CASE l.pc = "loop" -> LoopHead(l, elapsed)
      [] l.pc = "awaitRun" -> RunObserved(l, obs)
      [] l.pc = "sleeping" -> [l EXCEPT !.pc = "loop"]
      [] l.pc = "awaitRun2" -> RunObservedAgain(l, obs)
      [] l.pc = "awaitDataset" ->
            Ended(l, DatasetStepResult(l.run, resp), "outcome")

\* ------------------------------------------------------------------------
\* Both loops driven by one recorded script
\* ------------------------------------------------------------------------
\* a bound on the length of the recorded sequences
MaxObservations ==
    3

\* the records a script can hold
ScriptRecords ==
    {r \in RunRecords(run_1) :
        /\ r.status \in {RUNNING, SUCCEEDED, FAILED}
        /\ r.statusMessage = Absent
        /\ r.defaultDatasetId \in {Absent, Some(ds_1)}}

\* a history the platform can produce: a terminal status is final and a
\* dataset id, once there, stays
FeasibleHistory(h) ==
    \A k \in 1..(Len(h) - 1) :
        /\ h[k].status \notin PendingStatuses => h[k + 1].status = h[k].status
        /\ h[k].defaultDatasetId.present
              => h[k + 1].defaultDatasetId = h[k].defaultDatasetId

\* readings of Date.now() - startTime: around the start and around the
\* deadline
ClockReadings ==
    {0, pollInterval, DefaultMaxWaitTime, DefaultMaxWaitTime + pollInterval}

\* the clock does not run backwards, and the script ends past the deadline
FeasibleClock(c) ==
    /\ \A k \in 1..(Len(c) - 1) : c[k] <= c[k + 1]
    /\ c[Len(c)] = DefaultMaxWaitTime + pollInterval

ItemsResponses ==
    {[kind |-> "ok", items |-> <<"x">>], [kind |-> "error", message |-> Http404]}

Scripts ==
    {s \in [observations : [1..MaxObservations -> ScriptRecords],
            clock : [1..MaxObservations -> ClockReadings],
            items : ItemsResponses] :
        FeasibleHistory(s.observations) /\ FeasibleClock(s.clock)}

\* the k-th entry of a recorded sequence; past its end the last one repeats
Recorded(seq, k) ==
    IF k <= Len(seq) THEN seq[k] ELSE seq[Len(seq)]

\* a loop replaying the script: the loop, and how many clock readings and
\* observations it has consumed
Replaying(l) ==
    [loop |-> l, readings |-> 0, observed |-> 0]

ReplayStep(p, script) ==
    [loop |-> LoopStep(p.loop,
                       Recorded(script.clock, p.readings + 1),
                       [kind |-> "ok",
                        record |-> Recorded(script.observations, p.observed + 1)],
                       script.items),
     readings |-> IF p.loop.pc = "loop" THEN p.readings + 1 ELSE p.readings,
     observed |-> IF p.loop.pc \in {"awaitRun", "awaitRun2"}
                  THEN p.observed + 1 ELSE p.observed]

otherThanExec ==
    <<pollVars, http, catalog, mw, app, loops>>

ReplayInit ==
    /\ PollOff
    /\ http = Off
    /\ catalog = Off
    /\ mw = Off
    /\ app = Off
    /\ exec \in {[stage |-> "replay", script |-> s,
                  client |-> Replaying(NewLoop("client", run_1, key_1,
                                               DefaultMaxWaitTime)),
                  server |-> Replaying(NewLoop("server", run_1, key_1,
                                               DefaultMaxWaitTime))] :
                    s \in Scripts}
    /\ loops = Off

\* ApifyClient.waitForRun takes its next step on the script
ClientReplays ==
    /\ exec.client.loop.pc # "done"
    /\ exec' = [exec EXCEPT !.client = ReplayStep(@, exec.script)]
    /\ UNCHANGED otherThanExec

\* the wait route takes its next step on the same script
ServerReplays ==
    /\ exec.client.loop.pc = "done"
    /\ exec.server.loop.pc # "done"
    /\ exec' = [exec EXCEPT !.server = ReplayStep(@, exec.script)]
    /\ UNCHANGED otherThanExec

ReplayNext ==
    \/ ClientReplays
    \/ ServerReplays

ReplaySpec ==
    ReplayInit /\ [][ReplayNext]_vars

\* the class of a loop's outcome: success with its dataset, run-failed with
\* its status and message, timeout, transport failure
OutcomeClass(l) ==
    CASE l.path = "outcome" -> [class |-> "success", dataset |-> l.result.dataset]
      [] l.path = "runFailed" -> [class |-> "runFailed", message |-> l.result.message]
      [] OTHER -> [class |-> l.path]

\* C17 as stated: replaying one script of clock readings, run records and
\* dataset response, the client loop and the server loop have issued the
\* same sequence of remote requests and ended in the same outcome class.
C17_LoopsEquivalent ==
    (exec.client.loop.pc = "done" /\ exec.server.loop.pc = "done") =>
        /\ exec.client.loop.requests = exec.server.loop.requests
        /\ OutcomeClass(exec.client.loop) = OutcomeClass(exec.server.loop)

\* ------------------------------------------------------------------------
\* Claims on the success path and on the order of requests
\* ------------------------------------------------------------------------
\* C18 as stated: the run is never fetched again once it was observed as
\* SUCCEEDED, and a returned outcome is made of that one record: it is
\* outcome.run, its status, finishedAt and stats are the outcome's, and the
\* items request, issued exactly when the record has a dataset id, names
\* that id.
C18_OutcomeFromOneRecord ==
    /\ pc # "awaitRun2"
    /\ dsRun = NoRun
    /\ (pc = "done" /\ path = "outcome") =>
          /\ result.run = run
          /\ IsSucceeded(run.status)
          /\ result.status = run.status
          /\ result.finishedAt = run.finishedAt
          /\ result.stats = run.stats
          /\ dsReq.present = Truthy(run.defaultDatasetId)
          /\ dsReq.present => dsReq.value = run.defaultDatasetId.value

\* a run-status request is issued in this step
RunFetchStarts ==
    \/ pc = "loop" /\ pc' = "awaitRun"
    \/ pc = "awaitRun" /\ pc' = "awaitRun2"

\* C19 as stated: every run-status request after the first is issued from
\* the loop head, reached through the poll-interval sleep that followed a
\* fetch which returned a Pending status; requests never overlap.
C19_FetchesSequential ==
    [][(RunFetchStarts /\ fetches >= 1) =>
          /\ pc = "loop"
          /\ lastStatus \in PendingStatuses
          /\ now - startTime >= pollInterval]_vars

\* ------------------------------------------------------------------------
\* Two poll loops at once, on one platform and one clock
\* ------------------------------------------------------------------------
\* the clock is followed for MaxTicks seconds
MaxTicks ==
    4

LoopIds ==
    {1, 2}

\* the arguments of the two calls: different runs, different credentials
CallRunId(i) ==
    IF i = 1 THEN run_1 ELSE run_2

CallApiKey(i) ==
    IF i = 1 THEN key_1 ELSE key_2

\* budgets: the wait route's constant, and for waitForRun one or two poll
\* intervals
CallBudgets(i) ==
    IF i = "client" THEN {pollInterval, 2 * pollInterval}
    ELSE {DefaultMaxWaitTime}

\* the platform's side: whose run and whose dataset each id names
RunOwner(id) ==
    IF id = run_1 THEN key_1 ELSE key_2

RunDataset(id) ==
    IF id = run_1 THEN ds_1 ELSE ds_2

DatasetOwner(id) ==
    IF id = ds_1 THEN key_1 ELSE key_2

DatasetItems(id) ==
    IF id = ds_1 THEN <<"x">> ELSE <<"y">>

\* the platform's answer to a request: the record or the items the request
\* names, if its credential owns them
PlatformAnswer(runs, req) ==
    IF req.kind = "run"
    THEN IF req.authorization = BearerSpace \o RunOwner(req.id)
         THEN [kind |-> "ok", record |-> runs[req.id]]
         ELSE [kind |-> "error", message |-> Http404]
    ELSE IF req.authorization = BearerSpace \o DatasetOwner(req.id)
         THEN [kind |-> "ok", items |-> DatasetItems(req.id)]
         ELSE [kind |-> "error", message |-> Http404]

\* the request a loop is waiting for
Outstanding(l) ==
    l.requests[Len(l.requests)]

\* one step of a loop whose requests the platform answers
ServedStep(l, elapsed, runs) ==
    CASE l.pc \in {"awaitRun", "awaitRun2"} ->
            LoopStep(l, elapsed, PlatformAnswer(runs, Outstanding(l)), NoResponse)
      [] l.pc = "awaitDataset" ->
            LoopStep(l, elapsed, NoResponse, PlatformAnswer(runs, Outstanding(l)))
      [] OTHER -> LoopStep(l, elapsed, NoResponse, NoResponse)

\* the same step of a loop that is alone with its own run: it is handed
\* that run's record and that run's items
SoloStep(l, elapsed, record) ==
    IF l.pc = "done" THEN l
    ELSE LoopStep(l, elapsed, [kind |-> "ok", record |-> record],
                  [kind |-> "ok",
                   items |-> DatasetItems(record.defaultDatasetId.value)])

otherThanLoops ==
    <<pollVars, http, catalog, mw, app, exec>>

ConcInit ==
    /\ PollOff
    /\ http = Off
    /\ catalog = Off
    /\ mw = Off
    /\ app = Off
    /\ exec = Off
    /\ loops \in
          {[stage |-> "running", clock |-> 0,
            runs |-> [id \in RunIds |->
                        RunRecord(id, RUNNING, Absent, Some(RunDataset(id)))],
            inst |-> [i \in LoopIds |-> [started |-> FALSE, impl |-> f[i]]]] :
              f \in [LoopIds -> Impls]}

\* waitForRun(runId, maxWaitTime) / the wait route is entered
LoopStarts(i) ==
    /\ ~loops.inst[i].started
    /\ \E budget \in CallBudgets(loops.inst[i].impl) :
          loops' = [loops EXCEPT !.inst[i] =
                      [started |-> TRUE,
                       impl |-> loops.inst[i].impl,
                       startTime |-> loops.clock,
                       maxWaitTime |-> budget,
                       wakeAt |-> 0,
                       loop |-> NewLoop(loops.inst[i].impl, CallRunId(i),
                                        CallApiKey(i), budget),
                       solo |-> NewLoop(loops.inst[i].impl, CallRunId(i),
                                        CallApiKey(i), budget)]]
    /\ UNCHANGED otherThanLoops

\* loop i takes its next step; a sleeping loop wakes once its timer is due
LoopSteps(i) ==
    LET p == loops.inst[i] IN
    /\ p.started
    /\ p.loop.pc # "done"
    /\ p.loop.pc = "sleeping" => loops.clock >= p.wakeAt
    /\ loops' = [loops EXCEPT !.inst[i] =
                   [p EXCEPT
                      !.loop = ServedStep(@, loops.clock - p.startTime, loops.runs),
                      !.solo = SoloStep(@, loops.clock - p.startTime,
                                        loops.runs[CallRunId(i)]),
                      !.wakeAt =
                          IF ServedStep(p.loop, loops.clock - p.startTime,
                                        loops.runs).pc = "sleeping"
                          THEN loops.clock + pollInterval ELSE @]]
    /\ UNCHANGED otherThanLoops

\* a run reaches a terminal status
RunFinishes(id) ==
    /\ loops.stage = "running"
    /\ loops.runs[id].status = RUNNING
    /\ \E st \in {SUCCEEDED, FAILED} :
          loops' = [loops EXCEPT !.runs[id] =
                      RunRecord(id, st, Absent, @.defaultDatasetId)]
    /\ UNCHANGED otherThanLoops

\* a second passes
ClockTicks ==
    /\ loops.stage = "running"
    /\ loops.clock < MaxTicks * 1000
    /\ loops' = [loops EXCEPT !.clock = @ + 1000]
    /\ UNCHANGED otherThanLoops

ConcNext ==
    \/ \E i \in LoopIds : LoopStarts(i)
    \/ \E i \in LoopIds : LoopSteps(i)
    \/ \E id \in RunIds : RunFinishes(id)
    \/ ClockTicks

ConcSpec ==
    ConcInit /\ [][ConcNext]_vars

\* the requests of loop i name its own run, or that run's dataset, and
\* carry its own credential
OwnRequests(i) ==
    LET l == loops.inst[i].loop IN
    \A k \in DOMAIN l.requests :
        /\ l.requests[k].authorization = BearerSpace \o CallApiKey(i)
        /\ l.requests[k].id = (IF l.requests[k].kind = "run" THEN CallRunId(i)
                               ELSE RunDataset(CallRunId(i)))

\* C20: with two loops polling different runs under different credentials,
\* in any interleaving each loop keeps the budget and start time it was
\* entered with, every request it has issued carries its own run id (or its
\* run's dataset id) and its own credential, it is at every step where it
\* would be if it were alone with its own run's records, and a timeout it
\* reports is past its own deadline.
C20_LoopsIndependent ==
    \A i \in LoopIds :
        loops.inst[i].started =>
            LET p == loops.inst[i] IN
            /\ p.loop.maxWaitTime = p.maxWaitTime
            /\ p.loop.runId = CallRunId(i)
            /\ p.loop.apiKey = CallApiKey(i)
            /\ p.startTime <= loops.clock
            /\ OwnRequests(i)
            /\ p.loop = p.solo
            /\ p.loop.result.kind = "outcome" => p.loop.result.run.id = CallRunId(i)
            /\ p.loop.path = "timeout"
                  => loops.clock - p.startTime >= p.maxWaitTime

\* both loops have ended after polling side by side, one with its run's
\* outcome and the other with a timeout, each having issued requests while
\* the other was under way
C20_Witness ==
    /\ loops.inst[1].started /\ loops.inst[2].started
    /\ loops.inst[1].startTime # loops.inst[2].startTime
    /\ loops.inst[1].loop.path = "outcome"
    /\ loops.inst[1].loop.result.dataset = <<"x">>
    /\ loops.inst[2].loop.path = "timeout"
    /\ Len(loops.inst[2].loop.requests) >= 2

\* ------------------------------------------------------------------------
\* Termination of the poll loop
\* ------------------------------------------------------------------------
\* the steps of the loop itself, as opposed to those of the platform
LoopNext ==
    \/ Timeout
    \/ FetchRun
    \/ RunFetchFails
    \/ RunFetchReturns
    \/ Wake
    \/ RefetchReturns
    \/ RefetchFails
    \/ DatasetReturns
    \/ DatasetFails

\* every request completes and every timer fires: a step of the loop that
\* stays possible is eventually taken
LiveSpec ==
    Init /\ [][Next]_vars /\ WF_vars(LoopNext)

\* the ways a poll loop ends
EndedOneWay ==
    \/ path = "outcome" /\ result.kind = "outcome"
    \/ path = "runFailed" /\ result = Failure(RunFailedMessage(run))
    \/ path = "timeout" /\ result = Failure(TimeoutMessage(impl))
    \/ path = "transport" /\ result.kind = "error"
          /\ \E cause \in TransportCauses :
                result.message = RunFetchErrorMessage(impl, cause)

\* C21: when every request completes and the clock advances, the poll loop
\* ends; it ends with an outcome, a run-failed error, the timeout error or
\* the transport failure of a run fetch; the start time and the budget are
\* those of loop entry throughout; and once the loop has ended (so also
\* after a timeout) no request is issued any more.
C21_Terminates ==
    /\ <>(pc = "done")
    /\ [](pc = "done" => EndedOneWay)
    /\ [][startTime' = startTime /\ maxWaitTime' = maxWaitTime]_vars
    /\ [][pc = "done" => (pc' = "done" /\ fetches' = fetches /\ dsReq' = dsReq
                             /\ result' = result /\ path' = path)]_vars

\* a loop that has polled more than once has ended in the timeout
C21_Witness ==
    /\ pc = "done"
    /\ path = "timeout"
    /\ fetches >= 2
    /\ now - startTime >= maxWaitTime

\* ------------------------------------------------------------------------
\* No retry on the run-status path
\* ------------------------------------------------------------------------
\* C22 as stated: a run-status fetch that fails ends the poll loop in the
\* same step with that failure, its message beginning with the fetch
\* context, and no request is issued with it; a loop that has ended with
\* whatever result issues nothing further.
C22_NoRetry ==
    /\ [][(RunFetchFails \/ RefetchFails) =>
             /\ pc' = "done"
             /\ path' = "transport"
             /\ result'.kind = "error"
             /\ IsPrefix(FetchRunContext, result'.message)
             /\ fetches' = fetches
             /\ dsReq' = dsReq]_vars
    /\ [][pc = "done" => (pc' = "done" /\ fetches' = fetches /\ dsReq' = dsReq)]_vars

\* ------------------------------------------------------------------------
\* Claims on the App component
\* ------------------------------------------------------------------------
\* the suspended continuations of one kind
TasksOf(a, kind) ==
    {t \in a.tasks : t.kind = kind}

\* messages ApiClient.makeRequest can fail with before a route is reached
ProxyFailureCauses ==
    {FetchFailed, ApiKeyRequired}

\* C23: a wait request appears only in the step in which a launch returns,
\* it is for the run id that launch returned (the one the execution state
\* records), and a launch that fails starts no wait request and leaves the
\* execution 'failed' with "Failed to start actor run: <cause>".
C23_LaunchThenPoll ==
    [][/\ \A w \in TasksOf(app', "wait") \ TasksOf(app, "wait") :
             /\ TasksOf(app, "run") \ TasksOf(app', "run") # {}
             /\ app'.last = "runStarted"
             /\ app'.execution.runId = Some(w.runId)
       /\ (app'.last = "runFailed"
              /\ TasksOf(app, "run") \ TasksOf(app', "run") # {}) =>
             /\ TasksOf(app', "wait") \subseteq TasksOf(app, "wait")
             /\ app'.execution.status = "failed"
             /\ \E cause \in ProxyFailureCauses :
                   app'.execution.error = Some(StartContext \o cause)]_vars

\* a launch has returned run_2 and the wait request for run_2 is under way
C23_Witness ==
    /\ app.last = "runStarted"
    /\ app.execution.status = "running"
    /\ app.execution.runId = Some(run_2)
    /\ \E w \in TasksOf(app, "wait") : w.runId = run_2

\* C24 as stated: while an actor is selected, a non-null actorSchema is the
\* schema fetched for that actor, and isLoadingSchema is true while the
\* request for that actor's schema is in flight.
C24_SchemaOfSelectedActor ==
    app.selectedActor # NoActor =>
        /\ ~JFalsy(app.actorSchema) => app.actorSchema = SchemaFor(app.selectedActor)
        /\ (\E t \in TasksOf(app, "schema") : t.actor = app.selectedActor)
              => app.isLoadingSchema

\* C25 as stated: an idle execution leaves 'idle' only by a submission
\* (which makes it 'running'); a run started before the reset never makes
\* it 'completed' or 'failed'; results are on display only for a selected
\* actor.
C25_IdleUntilSubmitted ==
    /\ [][app.execution.status = "idle" =>
             \/ app'.execution.status = "idle"
             \/ /\ app'.execution.status = "running"
                /\ TasksOf(app', "run") \ TasksOf(app, "run") # {}]_vars
    /\ [](app.execution.status \in {"completed", "failed"}
             => app.selectedActor # NoActor)

\* C26 as stated: the step that takes the execution from 'running' to
\* 'completed' or 'failed' keeps the startTime the running state had, and a
\* failure of the wait keeps the runId the launch returned.
C26_KeepsStartTimeAndRunId ==
    [][(app.execution.status = "running"
           /\ app'.execution.status \in {"completed", "failed"}) =>
          /\ app'.execution.startTime = app.execution.startTime
          /\ (app'.execution.status = "failed"
                 /\ TasksOf(app, "wait") \ TasksOf(app', "wait") # {})
                => app'.execution.runId = app.execution.runId]_vars

\* every state variable as useState initialised it
InitialStateVariables(a) ==
    /\ a.apiKey = AppInitial.apiKey
    /\ a.isAuthenticated = AppInitial.isAuthenticated
    /\ a.authError = AppInitial.authError
    /\ a.actors = AppInitial.actors
    /\ a.selectedActor = AppInitial.selectedActor
    /\ a.actorSchema = AppInitial.actorSchema
    /\ a.isLoadingActors = AppInitial.isLoadingActors
    /\ a.isLoadingSchema = AppInitial.isLoadingSchema
    /\ a.execution = AppInitial.execution

\* C27 as stated: isAuthenticated turns true only as a getActors call made
\* with a non-blank key succeeds; submitting a blank key sets authError and
\* starts no request; a failed listing leaves isAuthenticated and the actor
\* list as they were; isLoadingActors is false after every attempt; and
\* resetApp leaves every state variable at its initial value.
C27_AuthenticationState ==
    /\ [][(~app.isAuthenticated /\ app'.isAuthenticated) =>
             /\ app'.last = "authenticated"
             /\ \E t \in TasksOf(app, "auth") \ TasksOf(app', "auth") :
                   Trim(t.key) # <<>>]_vars
    /\ [][(Trim(app.apiKey) = <<>> /\ app'.authError # app.authError
              /\ app'.last = "user" /\ ~app.isAuthenticated
              /\ app'.apiKey = app.apiKey) =>
             /\ app'.authError = EnterApiKey
             /\ app'.tasks = app.tasks]_vars
    /\ [][app'.last = "authFailed" =>
             /\ app'.isAuthenticated = app.isAuthenticated
             /\ app'.actors = app.actors]_vars
    /\ [](app.last \in {"authenticated", "authFailed"} => ~app.isLoadingActors)
    /\ [][(app.isAuthenticated /\ ~app'.isAuthenticated)
             => InitialStateVariables(app')]_vars

\* ------------------------------------------------------------------------
\* SchemaForm: formData, validateForm, handleSubmit
\* ------------------------------------------------------------------------
JBool(b) ==
    [t |-> "boolean", b |-> b]

\* the fields of the schema, by the type of their property
FormFields ==
    {"string", "integer", "boolean"}

\* what onChange stores for a field of each type: the text typed, the
\* parsed number (parseInt(...) || 0), the checkbox state
FieldInputs(field) ==
    CASE field = "string" -> {JString(<<>>), JString(<<" ">>), JString(<<"a">>)}
      [] field = "integer" -> {JNum(0), JNum(5)}
      [] field = "boolean" -> {JBool(FALSE), JBool(TRUE)}

\* property.default of each field: none, or a value of its type
FieldDefaults(field) ==
    CASE field = "string" -> {Undefined, JString(<<"a">>)}
      [] field = "integer" -> {Undefined, JNum(0)}
      [] field = "boolean" -> {Undefined, JBool(FALSE)}

FormSchemas ==
    {s \in [required : SUBSET FormFields,
            defaults : [FormFields -> UNION {FieldDefaults(f) : f \in FormFields}]] :
        \A f \in FormFields : s.defaults[f] \in FieldDefaults(f)}

\* !value
Not(v) ==
    \/ JFalsy(v)
    \/ v.t = "number" /\ v.n = 0
    \/ v.t = "boolean" /\ ~v.b

\* a ?? b
Nullish(a, b) ==
    IF a.t \in {"undefined", "null"} THEN b ELSE a

\* validateForm: the required fields that get 'This field is required'
ValidateForm(schema, formData) ==
    {field \in schema.required :
        \/ Not(formData[field])
        \/ formData[field].t = "string" /\ Trim(formData[field].chars) = <<>>}

\* renderInput: formData[key] ?? property.default ?? ''
DisplayedValue(schema, formData, key) ==
    Nullish(Nullish(formData[key], schema.defaults[key]), JString(<<>>))

FormInit ==
    /\ PollOff
    /\ http = Off
    /\ catalog = Off
    /\ mw = Off
    /\ app \in {[stage |-> "form", schema |-> s,
                 formData |-> [f \in FormFields |-> Undefined],
                 errors |-> {}, onSubmit |-> Absent, last |-> "mounted"] :
                   s \in FormSchemas}
    /\ exec = Off
    /\ loops = Off

\* updateFormData(key, value), from an input's onChange
UpdateFormData ==
    /\ app.stage = "form"
    /\ \E key \in FormFields : \E value \in FieldInputs(key) :
          app' = [app EXCEPT !.formData[key] = value,
                             !.errors = @ \ {key},
                             !.onSubmit = Absent,
                             !.last = "change"]
    /\ UNCHANGED otherThanApp

\* handleSubmit: validateForm(), then onSubmit(formData) if it passed
HandleSubmit ==
    /\ app.stage = "form"
    /\ app' = [app EXCEPT
                 !.errors = ValidateForm(app.schema, app.formData),
                 !.onSubmit = IF ValidateForm(app.schema, app.formData) = {}
                              THEN Some(app.formData) ELSE Absent,
                 !.last = "submit"]
    /\ UNCHANGED otherThanApp

FormNext ==
    \/ UpdateFormData
    \/ HandleSubmit

FormSpec ==
    FormInit /\ [][FormNext]_vars

\* the form shows something for this value
NonEmptyDisplay(v) ==
    ~(v.t = "string" /\ Trim(v.chars) = <<>>)

====
